---- MODULE Spec2Model ----
(***************************************************************************)
(* Model of the three model-preparation scripts of chess-assistant:        *)
(*   convert_model.py, download_and_convert.py and download_model.py.      *)
(* The state is the part of the filesystem the scripts read and write, the *)
(* environment they depend on (installed packages, reachable sources), the *)
(* position of the running script and its local variables.  History        *)
(* variables record what a run did (stages, acquisition attempts, fetches, *)
(* emitted instructions, the file handed to the staging copy).             *)
(***************************************************************************)
EXTENDS Integers, Sequences, FiniteSets, TLC

\* ---------------------------------------------------------------- bounds
MaxLen == 1     \* longest file content, in bytes
MaxRuns == 2    \* script invocations in one behaviour

Byte == {"x", "y"}
Contents == UNION {[1..n -> Byte] : n \in 0..MaxLen}
NonEmptyContents == {d \in Contents : Len(d) > 0}

\* ---------------------------------------------------------------- files
NoFile == [exists |-> FALSE, data |-> <<>>]
File(d) == [exists |-> TRUE, data |-> d]

Marker == "app/build.gradle.kts"
OnnxFile == "best_mobile.onnx"
TfliteFile == "chess_yolo.tflite"
AssetsDir == "app/src/main/assets"
DestFile == "app/src/main/assets/chess_yolo.tflite"
AssetsLabels == "app/src/main/assets/labels.txt"
LabelsPath == "labels.txt"
ExportedOnnx == "exported.onnx"
ExportedTflite == "exported.tflite"

AssetPaths == {DestFile, AssetsLabels}
Paths == {Marker, OnnxFile, TfliteFile, LabelsPath, ExportedOnnx, ExportedTflite}
             \cup AssetPaths

None == "None"

\* ---------------------------------------------------------------- entry points
CM == "convert_model"
DC == "download_and_convert"
DM == "download_model"
EntryPoints == {CM, DC, DM}

HfRegistry == "yamero999/chess-piece-detection-yolo11n"
BaseModel == "yolo11n.pt"
HfUrl == "https://huggingface.co/yamero999/chess-piece-detection-yolo11n/resolve/main/best_mobile.onnx"
GithubUrl == "https://github.com/Hann-THL/chess_piece_object_detection/raw/main/model.tflite"

\* the ordered acquisition strategies of each entry point
Strategies(e) ==
    IF e = CM THEN <<HfRegistry, BaseModel>>
    ELSE IF e = DC THEN <<HfUrl>>
    ELSE <<GithubUrl>>

Range(s) == {s[i] : i \in 1..Len(s)}

\* packages the entry point imports
required == {"ultralytics", "torch", "onnx", "tensorflow"}
ConvertImports == {"onnx", "onnx_tf", "tensorflow"}
Packages == required \cup ConvertImports
\* the environments a run is started in: any set of installed packages
Environments == SUBSET Packages

Required(e) ==
    IF e = CM THEN required
    ELSE IF e = DC THEN ConvertImports
    ELSE {}

\* ---------------------------------------------------------------- labels
labels == << "white_pawn", "white_knight", "white_bishop", "white_rook",
             "white_queen", "white_king", "black_pawn", "black_knight",
             "black_bishop", "black_rook", "black_queen", "black_king" >>

\* variant: ''.join(seq), the separator forgotten
RECURSIVE JoinNoSeparator(_)
JoinNoSeparator(s) ==
    IF Len(s) = 0 THEN <<>>
    ELSE <<s[1]>> \o JoinNoSeparator(Tail(s))

\* '\n'.join(seq): the items with a newline between neighbours
RECURSIVE Join(_)
Join(s) ==
    IF Len(s) = 0 THEN <<>>
    ELSE IF Len(s) = 1 THEN <<s[1]>>
    ELSE <<s[1], "\n">> \o Join(Tail(s))

\* number of lines of a text: one more than its newlines, 0 when empty
LineCount(d) ==
    IF Len(d) = 0 THEN 0
    ELSE Cardinality({i \in 1..Len(d) : d[i] = "\n"}) + 1

\* ---------------------------------------------------------------- messages
ManualUrlDC == "https://huggingface.co/yamero999/chess-piece-detection-yolo11n/tree/main"
ManualUrlDM == "https://github.com/Hann-THL/chess_piece_object_detection"
ManualFileDM == "model.tflite"
MsgManualDownload == "Manual download:"
MsgDownloadingModel == "Downloading model: yamero999/chess-piece-detection-yolo11n"
MsgTryingAlternative == "Trying alternative: downloading best.pt directly..."
MsgMissingPackages == "Missing packages"
MsgConversionError == "Error during conversion"
MsgNotInProject == "Not in android-chess-assistant directory"
MsgMissingDependency == "Missing dependency"
MsgConversionFailed == "Conversion failed"
MsgCopyFailed == "Copy failed"
MsgModelSize == "Model size"
MsgNextSteps == "Copy labels.txt to app/src/main/assets/labels.txt"

\* ---------------------------------------------------------------- state
VARIABLES
    fs,           \* path -> file record
    assetsDir,    \* does the directory app/src/main/assets exist
    installed,    \* importable packages
    reachable,    \* sources that answer during the current run
    entry,        \* the running (or last run) entry point, None before any
    pc,           \* position of the script
    exitStatus,   \* -1 while running, else the process exit status
    runs,         \* invocations so far
    model,        \* convert_model: the loaded model
    onnx_file,    \* download_and_convert.main: result of download_model()
    tflite_file,  \* download_and_convert.main: result of convert_to_tflite()
    model_file,   \* download_model.main: result of download_tflite_model()
    tflite_path,  \* convert_model: result of model.export(format="tflite")
    stages,       \* history: stages of this run, each with its outcome
    attempts,     \* history: acquisition strategies tried in this run
    fetches,      \* history: network / registry fetches started in this run
    emitted,      \* history: messages printed in this run
    handed,       \* history: the file passed to copy_to_assets in this run
    assets0,      \* history: the deployment directory when the run started
    acquired      \* history: destinations acquired and not deleted since

vars == << fs, assetsDir, installed, reachable, entry, pc, exitStatus, runs,
           model, onnx_file, tflite_file, model_file, tflite_path,
           stages, attempts, fetches, emitted, handed, assets0, acquired >>

locals == << model, onnx_file, tflite_file, model_file, tflite_path >>

NoExit == -1
NotHanded == [called |-> FALSE, file |-> NoFile]

\* the file at a path; None (a failed stage's result) names no file
FileAt(p) == IF p \in Paths THEN fs[p] ELSE NoFile

Stage(name, ok) == [stage |-> name, ok |-> ok]
Attempt(src, ok) == [source |-> src, ok |-> ok]

Init ==
    /\ \E m \in BOOLEAN :
         fs = [p \in Paths |-> IF p = Marker /\ m THEN File(<<>>) ELSE NoFile]
    /\ assetsDir = FALSE
    /\ installed \in Environments
    /\ reachable = {}
    /\ entry = None
    /\ pc = "idle"
    /\ exitStatus = NoExit
    /\ runs = 0
    /\ model = None /\ onnx_file = None /\ tflite_file = None
    /\ model_file = None /\ tflite_path = None
    /\ stages = <<>> /\ attempts = <<>> /\ fetches = 0 /\ emitted = {}
    /\ handed = NotHanded
    /\ assets0 = [p \in AssetPaths |-> NoFile]
    /\ acquired = {}

\* ---------------------------------------------------------------- invocation
FirstPc(e) ==
    IF e = CM THEN "cm_check" ELSE IF e = DC THEN "dc_marker" ELSE "dm_download"

\* the operator starts one of the scripts
Start(e) ==
    /\ pc \in {"idle", "done", "between"}
    /\ runs < MaxRuns
    /\ runs' = runs + 1
    /\ entry' = e
    /\ pc' = FirstPc(e)
    /\ exitStatus' = NoExit
    /\ reachable' \in SUBSET Range(Strategies(e))
    /\ model' = None /\ onnx_file' = None /\ tflite_file' = None
    /\ model_file' = None /\ tflite_path' = None
    /\ stages' = <<>> /\ attempts' = <<>> /\ fetches' = 0 /\ emitted' = {}
    /\ handed' = NotHanded
    /\ assets0' = [p \in AssetPaths |-> fs[p]]
    /\ UNCHANGED << fs, assetsDir, installed, acquired >>

\* between two runs the operator deletes a downloaded file; pc "done" is the
\* state in which the script has just exited, "between" the state after the
\* operator has touched the working directory
OperatorDelete(p) ==
    /\ pc \in {"done", "between"}
    /\ p \in {OnnxFile, TfliteFile}
    /\ fs[p].exists
    /\ fs' = [fs EXCEPT ![p] = NoFile]
    /\ acquired' = acquired \ {p}
    /\ pc' = "between"
    /\ UNCHANGED << assetsDir, installed, reachable, entry, exitStatus,
                    runs, locals, stages, attempts, fetches, emitted, handed,
                    assets0 >>

\* sys.exit(code), or the interpreter ending the script
Exit(code) ==
    /\ pc' = "done"
    /\ exitStatus' = code


\* variant: the result of the stage is not looked at
ProceedAlways(ok, nextPc) ==
    pc' = nextPc /\ exitStatus' = NoExit

\* `if not x: sys.exit(1)` / `if not x: return False`: the run goes on to the
\* next stage only when the stage that just ran reported success
Proceed(ok, nextPc) ==
    IF ok THEN pc' = nextPc /\ exitStatus' = NoExit
    ELSE Exit(1)

\* ---------------------------------------------------------------- library calls
\* prefixes of a content, the whole content excluded
ProperPrefixes(d) == {SubSeq(d, 1, n) : n \in 0..(Len(d) - 1)}

\* urllib.request.urlretrieve(url, dest): raises before touching dest when the
\* source does not answer; otherwise writes what the server sends (an empty
\* body included); a transfer cut short leaves the bytes received and raises
urlretrieve(url, dest, ok) ==
    \/ /\ url \notin reachable
       /\ ok = FALSE
       /\ fs' = fs
    \/ /\ url \in reachable
       /\ ok = TRUE
       /\ \E d \in Contents : fs' = [fs EXCEPT ![dest] = File(d)]
    \/ /\ url \in reachable
       /\ ok = FALSE
       /\ \E d \in Contents : \E q \in ProperPrefixes(d) :
            fs' = [fs EXCEPT ![dest] = File(q)]

\* ---------------------------------------------------------------- staging copy
\* variant: an existing destination file is kept instead of overwritten
copy_to_assets_keep_existing(src, ret) ==
    /\ handed' = [called |-> TRUE, file |-> FileAt(src)]
    /\ \/ /\ ~assetsDir
          /\ ret = "raise"
          /\ UNCHANGED << fs, assetsDir >>
          /\ emitted' = emitted
       \/ /\ assetsDir' = TRUE
          /\ \/ /\ FileAt(src).exists
                /\ ret = "True"
                /\ fs' = IF fs[DestFile].exists THEN fs
                         ELSE [fs EXCEPT ![DestFile] = FileAt(src)]
                /\ emitted' = emitted
             \/ /\ ~FileAt(src).exists
                /\ ret = "False"
                /\ fs' = fs
                /\ emitted' = emitted \cup {MsgCopyFailed}

\* copy_to_assets(src), the same function in download_and_convert.py and
\* download_model.py.  ret is "True", "False", or "raise" when os.makedirs,
\* which is outside the try block, fails.
copy_to_assets(src, ret) ==
    /\ handed' = [called |-> TRUE, file |-> FileAt(src)]
    /\ \/ /\ ~assetsDir                       \* os.makedirs raises OSError
          /\ ret = "raise"
          /\ UNCHANGED << fs, assetsDir >>
          /\ emitted' = emitted
       \/ /\ assetsDir' = TRUE
          /\ \/ /\ FileAt(src).exists         \* shutil.copy succeeds
                /\ ret = "True"
                /\ fs' = [fs EXCEPT ![DestFile] = FileAt(src)]
                /\ emitted' = emitted
             \/ /\ ~FileAt(src).exists        \* FileNotFoundError
                /\ ret = "False"
                /\ fs' = fs
                /\ emitted' = emitted \cup {MsgCopyFailed}
             \/ /\ FileAt(src).exists         \* permission / space error
                /\ ret = "False"
                /\ \/ fs' = fs
                   \/ \E q \in ProperPrefixes(FileAt(src).data) :
                        fs' = [fs EXCEPT ![DestFile] = File(q)]
                /\ emitted' = emitted \cup {MsgCopyFailed}

\* the end of main() after the copy: 0 when it returned True, 1 when it
\* returned False or the exception of os.makedirs ended the interpreter
AfterCopy(ret) ==
    IF ret = "True" THEN Exit(0) ELSE Exit(1)

\* ---------------------------------------------------------------- download_model.py
\* download_tflite_model(): always fetches, no look at an existing file
download_tflite_model ==
    \E ok \in BOOLEAN :
        /\ urlretrieve(GithubUrl, TfliteFile, ok)
        /\ fetches' = fetches + 1
        /\ attempts' = Append(attempts, Attempt(GithubUrl, ok))
        /\ model_file' = IF ok THEN TfliteFile ELSE None
        /\ emitted' = IF ok THEN emitted \cup {GithubUrl}
                      ELSE emitted \cup {GithubUrl, MsgManualDownload,
                                         ManualUrlDM, ManualFileDM, TfliteFile}
        /\ acquired' = IF ok THEN acquired \cup {TfliteFile} ELSE acquired

DM_Download ==
    /\ pc = "dm_download"
    /\ download_tflite_model
    /\ stages' = Append(stages, Stage("acquisition", model_file' # None))
    /\ Proceed(model_file' # None, "dm_copy")
    /\ UNCHANGED << assetsDir, installed, reachable, entry, runs, model,
                    onnx_file, tflite_file, tflite_path, handed, assets0 >>

DM_Copy ==
    /\ pc = "dm_copy"
    /\ \E ret \in {"True", "False", "raise"} :
         /\ copy_to_assets(model_file, ret)
         /\ stages' = Append(stages, Stage("staging", ret = "True"))
         /\ AfterCopy(ret)
    /\ UNCHANGED << installed, reachable, entry, runs, locals, attempts,
                    fetches, assets0, acquired >>

\* ---------------------------------------------------------------- download_and_convert.py
\* main(): the project marker file must be in the working directory
DC_Marker ==
    /\ pc = "dc_marker"
    /\ stages' = Append(stages, Stage("project_root", fs[Marker].exists))
    /\ emitted' = IF fs[Marker].exists THEN emitted
                  ELSE emitted \cup {MsgNotInProject}
    /\ Proceed(fs[Marker].exists, "dc_download")
    /\ UNCHANGED << fs, assetsDir, installed, reachable, entry, runs, locals,
                    attempts, fetches, handed, assets0, acquired >>

\* download_model(): skipped when best_mobile.onnx exists
download_model ==
    IF fs[OnnxFile].exists
    THEN /\ onnx_file' = OnnxFile
         /\ acquired' = acquired \cup {OnnxFile}
         /\ UNCHANGED << fs, fetches, attempts, emitted >>
    ELSE \E ok \in BOOLEAN :
         /\ urlretrieve(HfUrl, OnnxFile, ok)
         /\ fetches' = fetches + 1
         /\ attempts' = Append(attempts, Attempt(HfUrl, ok))
         /\ onnx_file' = IF ok THEN OnnxFile ELSE None
         /\ emitted' = IF ok THEN emitted \cup {HfUrl}
                       ELSE emitted \cup {HfUrl, MsgManualDownload,
                                          ManualUrlDC, OnnxFile}
         /\ acquired' = IF ok THEN acquired \cup {OnnxFile} ELSE acquired

DC_Download ==
    /\ pc = "dc_download"
    /\ download_model
    /\ stages' = Append(stages, Stage("acquisition", onnx_file' # None))
    /\ Proceed(onnx_file' # None, "dc_convert")
    /\ UNCHANGED << assetsDir, installed, reachable, entry, runs, model,
                    tflite_file, model_file, tflite_path, handed, assets0 >>

\* convert_to_tflite(onnx_file): the imports, the onnx -> SavedModel ->
\* TFLite chain, then the write of chess_yolo.tflite
convert_to_tflite(src) ==
    IF ~(ConvertImports \subseteq installed)
    THEN /\ tflite_file' = None                  \* except ImportError
         /\ emitted' = emitted \cup {MsgMissingDependency}
         /\ fs' = fs
    ELSE \/ /\ tflite_file' = None               \* except Exception
            /\ emitted' = emitted \cup {MsgConversionFailed}
            /\ \/ fs' = fs                       \* load / prepare / convert
               \/ fs' = [fs EXCEPT ![TfliteFile] = File(<<>>)]   \* f.write
         \/ /\ FileAt(src).exists
            /\ \E d \in NonEmptyContents :
                 fs' = [fs EXCEPT ![TfliteFile] = File(d)]
            /\ tflite_file' = TfliteFile
            /\ emitted' = emitted

DC_Convert ==
    /\ pc = "dc_convert"
    /\ convert_to_tflite(onnx_file)
    /\ stages' = Append(stages, Stage("conversion", tflite_file' # None))
    /\ Proceed(tflite_file' # None, "dc_copy")
    /\ UNCHANGED << assetsDir, installed, reachable, entry, runs, model,
                    onnx_file, model_file, tflite_path, attempts, fetches,
                    handed, assets0, acquired >>

DC_Copy ==
    /\ pc = "dc_copy"
    /\ \E ret \in {"True", "False", "raise"} :
         /\ copy_to_assets(tflite_file, ret)
         /\ stages' = Append(stages, Stage("staging", ret = "True"))
         /\ AfterCopy(ret)
    /\ UNCHANGED << installed, reachable, entry, runs, locals, attempts,
                    fetches, assets0, acquired >>

\* ---------------------------------------------------------------- convert_model.py
\* check_dependencies(): True when every required package can be imported
check_dependencies == required \ installed = {}

CM_Check ==
    /\ pc = "cm_check"
    /\ stages' = Append(stages, Stage("dependency", check_dependencies))
    /\ emitted' = IF check_dependencies THEN emitted
                  ELSE emitted \cup {MsgMissingPackages}
    /\ Proceed(check_dependencies, "cm_load")
    /\ UNCHANGED << fs, assetsDir, installed, reachable, entry, runs, locals,
                    attempts, fetches, handed, assets0, acquired >>

\* the handler of download_and_convert_model(): `except Exception` prints the
\* error and the traceback and returns False, and the script exits with 1
CM_Except(printed) ==
    /\ emitted' = emitted \cup printed \cup {MsgConversionError}
    /\ Exit(1)

\* what STEP 1 prints: the model name, and the notice of the fallback
LoadMessages ==
    IF HfRegistry \in reachable THEN {MsgDownloadingModel}
    ELSE {MsgDownloadingModel, MsgTryingAlternative}

\* variant: no fallback to the base model
load_model_no_fallback ==
    /\ model' = IF HfRegistry \in reachable THEN HfRegistry ELSE None
    /\ attempts' = attempts \o <<Attempt(HfRegistry, HfRegistry \in reachable)>>
    /\ fetches' = fetches + 1

\* YOLO(model_name), and YOLO("yolo11n.pt") when the first raises
load_model ==
    IF HfRegistry \in reachable
    THEN /\ model' = HfRegistry
         /\ attempts' = attempts \o <<Attempt(HfRegistry, TRUE)>>
         /\ fetches' = fetches + 1
    ELSE /\ model' = IF BaseModel \in reachable THEN BaseModel ELSE None
         /\ attempts' = attempts \o <<Attempt(HfRegistry, FALSE),
                                      Attempt(BaseModel, BaseModel \in reachable)>>
         /\ fetches' = fetches + 2

CM_Load ==
    /\ pc = "cm_load"
    /\ IF {"ultralytics", "tensorflow"} \subseteq installed
       THEN /\ load_model
            /\ stages' = Append(stages, Stage("acquisition", model' # None))
            /\ IF model' # None
               THEN /\ pc' = "cm_onnx" /\ exitStatus' = NoExit
                    /\ emitted' = emitted \cup LoadMessages
               ELSE CM_Except(LoadMessages)
       ELSE /\ UNCHANGED << model, attempts, fetches >>    \* ImportError
            /\ stages' = Append(stages, Stage("dependency", FALSE))
            /\ CM_Except({})
    /\ UNCHANGED << fs, assetsDir, installed, reachable, entry, runs,
                    onnx_file, tflite_file, model_file, tflite_path, handed,
                    assets0, acquired >>

\* the bytes an export of the loaded model consists of: a function of the
\* model that was loaded, never empty
ExportBytes(m) == IF m = HfRegistry THEN <<"x">> ELSE <<"y">>

\* model.export(format=fmt): raises, or writes the exported file
export(path, ok) ==
    \/ /\ ok = FALSE
       /\ fs' = fs
    \/ /\ ok = TRUE
       /\ fs' = [fs EXCEPT ![path] = File(ExportBytes(model))]

CM_ExportOnnx ==
    /\ pc = "cm_onnx"
    /\ \E ok \in BOOLEAN :
         /\ export(ExportedOnnx, ok)
         /\ stages' = Append(stages, Stage("conversion", ok))
         /\ IF ok
            THEN pc' = "cm_tflite" /\ exitStatus' = NoExit /\ emitted' = emitted
            ELSE CM_Except({})
    /\ UNCHANGED << assetsDir, installed, reachable, entry, runs, locals,
                    attempts, fetches, handed, assets0, acquired >>

CM_ExportTflite ==
    /\ pc = "cm_tflite"
    /\ \E ok \in BOOLEAN :
         /\ export(ExportedTflite, ok)
         /\ stages' = Append(stages, Stage("conversion", ok))
         /\ tflite_path' = IF ok THEN ExportedTflite ELSE None
         /\ IF ok
            THEN /\ pc' = "cm_labels" /\ exitStatus' = NoExit
                 /\ emitted' = IF fs'[ExportedTflite].exists
                               THEN emitted \cup {MsgModelSize}
                               ELSE emitted
            ELSE CM_Except({})
    /\ UNCHANGED << assetsDir, installed, reachable, entry, runs, model,
                    onnx_file, tflite_file, model_file, attempts, fetches,
                    handed, assets0, acquired >>

\* STEP 4: labels.txt is written into the working directory, and the
\* function returns True
CM_Labels ==
    /\ pc = "cm_labels"
    /\ \E ok \in BOOLEAN :
         /\ fs' = IF ok THEN [fs EXCEPT ![LabelsPath] = File(Join(labels))]
                  ELSE fs
         /\ stages' = Append(stages, Stage("labels", ok))
         /\ IF ok
            THEN Exit(0) /\ emitted' = emitted \cup {MsgNextSteps}
            ELSE CM_Except({})
    /\ UNCHANGED << assetsDir, installed, reachable, entry, runs, locals,
                    attempts, fetches, handed, assets0, acquired >>

\* ================================================================ properties
\* ArtifactValidator's test: the file exists and has more than 0 bytes
Valid(f) == f.exists /\ Len(f.data) > 0

\* the path of the deployment-format model the run produced, None if none
ProducedPath ==
    IF entry = DC THEN tflite_file
    ELSE IF entry = DM THEN model_file
    ELSE tflite_path

Finished == pc = "done"
AllReportedOk == \A i \in 1..Len(stages) : stages[i].ok
AcqFailed == \E i \in 1..Len(stages) : stages[i] = Stage("acquisition", FALSE)
AcqSucceeded == \E i \in 1..Len(stages) : stages[i] = Stage("acquisition", TRUE)
AssetsEmptyAtStart == \A p \in AssetPaths : ~assets0[p].exists
AssetsNow == {p \in AssetPaths : fs[p].exists}
Primary(e) == Strategies(e)[1]

\* C1: a produced model file that is missing or has 0 bytes is never passed
\* to copy_to_assets, and a run never ends in success with such a file.
C1_ValidationGate ==
    /\ handed.called => Valid(handed.file)
    /\ (Finished /\ exitStatus = 0) => Valid(FileAt(ProducedPath))

\* C2: the exit status is 0 exactly when every stage of the run succeeded,
\* validation of the produced artifact included, and 1 when any stage failed.
C2_ExitStatus ==
    Finished =>
        LET allOk == AllReportedOk /\ Valid(FileAt(ProducedPath))
        IN  /\ exitStatus = 0 <=> allOk
            /\ ~allOk => exitStatus = 1

\* C3: stages run in the order acquisition, conversion, staging (label
\* writing last), and a stage runs only when every earlier stage of the run
\* reported success: a failed stage is the last one of its run.
Rank(st) ==
    IF st \in {"project_root", "dependency"} THEN 0
    ELSE IF st = "acquisition" THEN 1
    ELSE IF st = "conversion" THEN 2
    ELSE IF st = "staging" THEN 3
    ELSE 4

C3_StageOrder ==
    /\ \A i \in 1..Len(stages) : \A j \in 1..(i - 1) :
          /\ stages[j].ok
          /\ Rank(stages[j].stage) <= Rank(stages[i].stage)
    /\ handed.called =>
          \A i \in 1..(Len(stages) - 1) : stages[i].ok
    /\ (fs[LabelsPath].exists /\ entry = CM /\ Finished /\ exitStatus = 0) =>
          AllReportedOk

C3_Witness ==
    /\ Finished /\ entry = DC
    /\ stages = << Stage("project_root", TRUE), Stage("acquisition", TRUE),
                   Stage("conversion", FALSE) >>
    /\ ~handed.called

\* C4: an acquisition against a destination that an earlier acquisition
\* produced, and that was not deleted since, starts no fetch and leaves the
\* file as it is.
Dest(e) == IF e = DC THEN OnnxFile ELSE TfliteFile

C4_Idempotent ==
    [][ ( /\ pc \in {"dc_download", "dm_download"}
          /\ pc' # pc
          /\ Dest(entry) \in acquired
          /\ fs[Dest(entry)].exists )
        => ( /\ fetches' = fetches
             /\ fs'[Dest(entry)] = fs[Dest(entry)] ) ]_vars

\* C5: the strategies are attempted in declared order, each at most once and
\* a later one only after the earlier ones raised; failure of the acquisition
\* is reported only when all of them were attempted and raised, and the
\* first success ends the acquisition.
C5_FallbackOrder ==
    entry # None =>
        LET S == Strategies(entry)
            n == Len(attempts)
        IN  /\ n <= Len(S)
            /\ fetches = n
            /\ \A i \in 1..n : attempts[i].source = S[i]
            /\ \A i \in 1..(n - 1) : ~attempts[i].ok
            /\ AcqFailed => n = Len(S) /\ \A i \in 1..n : ~attempts[i].ok
            /\ AcqSucceeded => n = 0 \/ attempts[n].ok

C5_Witness ==
    /\ entry = CM
    /\ AcqSucceeded
    /\ attempts = << Attempt(HfRegistry, FALSE), Attempt(BaseModel, TRUE) >>

ManualUrls == {ManualUrlDC, ManualUrlDM, HfUrl, GithubUrl}
ExpectedFiles == {OnnxFile, TfliteFile, ManualFileDM}

C7_FailureScenario ==
    ( /\ Finished
      /\ Len(Strategies(entry)) = 2
      /\ Range(Strategies(entry)) \cap reachable = {}
      /\ AcqFailed )
    => ( /\ exitStatus = 1
         /\ \A p \in AssetPaths : fs[p] = assets0[p]
         /\ MsgManualDownload \in emitted
         /\ emitted \cap ManualUrls # {}
         /\ emitted \cap ExpectedFiles # {} )

\* C8: when the acquisition returns a path, the file at that path exists and
\* has more than 0 bytes.
C8_NonEmptyOnSuccess ==
    /\ pc = "dc_convert" => Valid(FileAt(onnx_file))
    /\ pc = "dm_copy" => Valid(FileAt(model_file))

\* C9: in a run of an entry point that needs a conversion toolchain which is
\* not installed, no registry lookup and no download is started.
C9_NoFetchWithoutToolchain ==
    (entry # None /\ ~(Required(entry) \subseteq installed)) => fetches = 0

\* C10: after a successful run that staged a file, the destination
\* chess_yolo.tflite has the content, hence the size, of the file handed to
\* copy_to_assets, whatever was there before.
C10_RoundTrip ==
    (Finished /\ exitStatus = 0 /\ handed.called) =>
        /\ fs[DestFile].exists
        /\ fs[DestFile].data = handed.file.data
        /\ Len(fs[DestFile].data) = Len(handed.file.data)

C10_Witness ==
    /\ Finished /\ exitStatus = 0 /\ handed.called
    /\ assets0[DestFile].exists
    /\ assets0[DestFile].data # handed.file.data
    /\ fs[DestFile] = handed.file

Next ==
    \/ \E e \in EntryPoints : Start(e)
    \/ \E p \in Paths : OperatorDelete(p)
    \/ DM_Download
    \/ DM_Copy
    \/ DC_Marker
    \/ DC_Download
    \/ DC_Convert
    \/ DC_Copy
    \/ CM_Check
    \/ CM_Load
    \/ CM_ExportOnnx
    \/ CM_ExportTflite
    \/ CM_Labels

Spec == Init /\ [][Next]_vars

====
